---- MODULE Spec2Model ----
(***************************************************************************)
(* RealtyAI report pipeline of server.py: sanitize_text,                   *)
(* split_sections_for_pdf and the page flow of generate_pdf.               *)
(*                                                                         *)
(* A character is a TLA+ string, the character itself or U+hhhh for its     *)
(* code point; a text is a sequence of characters.  ord gives the code     *)
(* point of a character.                                                   *)
(***************************************************************************)
EXTENDS Integers, Sequences, FiniteSets, TLC

VARIABLES
    pc,         \* position inside the function being run
    raw,        \* sanitize_text: the argument
    clean1,     \* sanitize_text(raw)
    clean2,     \* sanitize_text(sanitize_text(raw))
    base,       \* the string an emoji was inserted into to give raw
    inserted,   \* the inserted emoji character
    text,       \* split_sections_for_pdf: the argument
    out,        \* split_sections_for_pdf: the returned list
    sections,   \* generate_pdf: the section list being rendered
    secIdx,     \* generate_pdf: index of the section of the for loop
    wrapped,    \* generate_pdf: wrapped lines of the current section
    lineIdx,    \* generate_pdf: number of wrapped lines already drawn
    y,          \* generate_pdf: the cursor
    page,       \* draw operations on the page that is open
    pages,      \* pages closed by showPage, in order
    breaks,     \* new_page calls so far: <<kind, section, empty page?>>
    saved       \* pdf.save() has run

vars == <<pc, raw, clean1, clean2, base, inserted, text, out, sections,
          secIdx, wrapped, lineIdx, y, page, pages, breaks, saved>>

sanVars == <<raw, clean1, clean2, base, inserted>>
splitVars == <<text, out>>
pdfVars == <<sections, secIdx, wrapped, lineIdx, y, page, pages, breaks, saved>>

(***************************************************************************)
(* Bounds                                                                  *)
(***************************************************************************)
MaxSections == 3      \* sections in a rendered list
MaxWrap == 45         \* most wrapped lines one source line gives
MaxLen == 5           \* characters in a sanitizer input
MaxBaseLen == 3       \* characters in a string an emoji is inserted into
MaxPieces == 4        \* pieces a splitter input is built from

(***************************************************************************)
(* Generic sequence helpers                                                *)
(***************************************************************************)
RECURSIVE Flatten(_)
Flatten(ss) == IF ss = <<>> THEN <<>> ELSE Head(ss) \o Flatten(Tail(ss))

RECURSIVE SeqsUpTo(_, _)
SeqsUpTo(S, n) ==
    IF n = 0 THEN {<<>>}
    ELSE LET shorter == SeqsUpTo(S, n - 1)
         IN  shorter \cup {Append(s, x) : s \in {t \in shorter : Len(t) = n - 1}, x \in S}

(***************************************************************************)
(* Characters.  ord(ch) for the characters the inputs are drawn from; the  *)
(* backquote, the euro sign and the emoji are named by their code point.   *)
(***************************************************************************)
ord(ch) ==
    CASE ch = "\t" -> 9
      [] ch = "\n" -> 10
      [] ch = "\f" -> 12
      [] ch = "\r" -> 13
      [] ch = " " -> 32
      [] ch = "#" -> 35
      [] ch = "$" -> 36
      [] ch = "*" -> 42
      [] ch = "." -> 46
      [] ch = "1" -> 49
      [] ch = ":" -> 58
      [] ch = "_" -> 95
      [] ch = "U+0060" -> 96       \* the backquote
      [] ch = "a" -> 97
      [] ch = "b" -> 98
      [] ch = "x" -> 120
      [] ch = "U+20AC" -> 8364      \* 0x20AC
      [] ch = "U+2600" -> 9728      \* 0x2600
      [] ch = "U+27BF" -> 10175     \* 0x27BF
      [] ch = "U+1F000" -> 126976   \* 0x1F000
      [] ch = "U+1F600" -> 128512   \* 0x1F600
      [] ch = "U+1FAFF" -> 129791   \* 0x1FAFF

\* what str.strip() and str.rstrip() remove, among the characters above
Whitespace == {" ", "\t", "\n", "\r", "\f"}

RECURSIVE LStrip(_)
LStrip(s) == IF s # <<>> /\ Head(s) \in Whitespace THEN LStrip(Tail(s)) ELSE s

RECURSIVE RStrip(_)
RStrip(s) ==
    IF s # <<>> /\ s[Len(s)] \in Whitespace THEN RStrip(SubSeq(s, 1, Len(s) - 1)) ELSE s

Strip(s) == LStrip(RStrip(s))

\* the slice s[a:b] for 0 <= a, b <= len(s)
Slice(s, a, b) == SubSeq(s, a + 1, b)

\* str.replace(md, ""): leftmost occurrences, not overlapping
RECURSIVE Remove(_, _)
Remove(s, md) ==
    IF Len(s) < Len(md) THEN s
    ELSE IF SubSeq(s, 1, Len(md)) = md
         THEN Remove(SubSeq(s, Len(md) + 1, Len(s)), md)
         ELSE <<Head(s)>> \o Remove(Tail(s), md)

\* str.split("\n")
RECURSIVE SplitLines(_)
SplitLines(s) ==
    IF \A i \in 1..Len(s) : s[i] # "\n" THEN <<s>>
    ELSE LET i == CHOOSE i \in 1..Len(s) :
                      s[i] = "\n" /\ \A j \in 1..(i - 1) : s[j] # "\n"
         IN  <<SubSeq(s, 1, i - 1)>> \o SplitLines(SubSeq(s, i + 1, Len(s)))

\* "\n".join(lines)
RECURSIVE JoinLines(_)
JoinLines(ls) ==
    IF ls = <<>> THEN <<>>
    ELSE IF Len(ls) = 1 THEN ls[1]
         ELSE ls[1] \o <<"\n">> \o JoinLines(Tail(ls))

(***************************************************************************)
(* sanitize_text (server.py 67-99)                                         *)
(***************************************************************************)
\* faulty variant: the single "*" is missing from the list
MarkdownMarkers_pairs_only == << <<"*", "*">>, <<"#">>, <<"U+0060">>, <<"_">> >>

MarkdownMarkers == << <<"*", "*">>, <<"*">>, <<"#">>, <<"U+0060">>, <<"_">> >>

RECURSIVE RemoveMarkdown(_, _)
RemoveMarkdown(s, mds) ==
    IF mds = <<>> THEN s ELSE RemoveMarkdown(Remove(s, Head(mds)), Tail(mds))

\* faulty variant: the upper ends of the two ranges are left out
keep_open_range(ch) ==
    LET code == ord(ch)
    IN  IF 126976 <= code /\ code < 129791 THEN FALSE
        ELSE IF 9728 <= code /\ code < 10175 THEN FALSE
        ELSE TRUE

keep(ch) ==
    LET code == ord(ch)
    IN  IF 126976 <= code /\ code <= 129791 THEN FALSE
        ELSE IF 9728 <= code /\ code <= 10175 THEN FALSE
        ELSE TRUE

RStripEach(ls) == [i \in 1..Len(ls) |-> RStrip(ls[i])]

\* faulty variant: runs of blank lines are kept
CollapseBlank_keep_runs(ls, skip) == ls

\* the loop of lines 88-97; skip is the "previous line was blank" flag
RECURSIVE CollapseBlank(_, _)
CollapseBlank(ls, skip) ==
    IF ls = <<>> THEN <<>>
    ELSE IF Strip(Head(ls)) = <<>>
         THEN (IF skip THEN <<>> ELSE << <<>> >>) \o CollapseBlank(Tail(ls), TRUE)
         ELSE <<Head(ls)>> \o CollapseBlank(Tail(ls), FALSE)

sanitize_text(r) ==
    IF r = <<>> THEN <<>>
    ELSE LET t1 == RemoveMarkdown(r, MarkdownMarkers)
             t2 == SelectSeq(t1, keep)
             lines == RStripEach(SplitLines(t2))
             clean == CollapseBlank(lines, FALSE)
         IN  Strip(JoinLines(clean))

\* s with character ch put in front of position pos (0 = in front of all)
InsertAt(s, pos, ch) == SubSeq(s, 1, pos) \o <<ch>> \o SubSeq(s, pos + 1, Len(s))

(***************************************************************************)
(* split_sections_for_pdf (server.py 160-186)                              *)
(***************************************************************************)
titles ==
    <<
       <<"R", "e", "n", "t", "a", "l", " ", "Y", "i", "e", "l", "d">>,
       <<"M", "o", "n", "t", "h", "l", "y", " ", "C", "a", "s", "h", "f", "l",
         "o", "w">>,
       <<"A", "n", "n", "u", "a", "l", " ", "C", "a", "s", "h", "f", "l", "o",
         "w">>,
       <<"R", "O", "I", " ", "(", "5", "-", "y", "e", "a", "r", " ", "&", " ",
         "1", "0", "-", "y", "e", "a", "r", ")">>,
       <<"C", "a", "p", " ", "R", "a", "t", "e">>,
       <<"R", "i", "s", "k", " ", "S", "c", "o", "r", "e">>,
       <<"M", "a", "r", "k", "e", "t", " ", "S", "u", "m", "m", "a", "r", "y">>,
       <<"F", "i", "n", "a", "l", " ", "R", "e", "c", "o", "m", "m", "e", "n",
         "d", "a", "t", "i", "o", "n">>
    >>

ReportTitle == <<"R", "e", "p", "o", "r", "t">>

\* the pattern "(" + "|".join(escaped titles) + "):" tried at 0-based offset a:
\* the first alternative that matches there, 0 when none does
MatchAt(t, a) ==
    LET hits == {k \in 1..Len(titles) :
                    /\ a + Len(titles[k]) + 1 <= Len(t)
                    /\ Slice(t, a, a + Len(titles[k])) = titles[k]
                    /\ t[a + Len(titles[k]) + 1] = ":"}
    IN  IF hits = {} THEN 0 ELSE CHOOSE k \in hits : \A h \in hits : k <= h

\* re.finditer from offset a on: leftmost matches, the scan resuming at m.end()
RECURSIVE FindIter(_, _)
FindIter(t, a) ==
    IF a >= Len(t) THEN <<>>
    ELSE LET k == MatchAt(t, a)
         IN  IF k = 0 THEN FindIter(t, a + 1)
             ELSE LET e == a + Len(titles[k]) + 1
                  IN  <<[group1 |-> titles[k], start |-> a, end |-> e]>> \o FindIter(t, e)

\* faulty variant: the first anchor of each title, in the order of the list
RECURSIVE FirstOfEach(_, _)
FirstOfEach(t, k) ==
    IF k > Len(titles) THEN <<>>
    ELSE LET at == {a \in 0..Len(t) : MatchAt(t, a) = k}
         IN  (IF at = {} THEN <<>>
              ELSE LET a == CHOOSE a \in at : \A b \in at : a <= b
                   IN  <<[group1 |-> titles[k], start |-> a,
                          end |-> a + Len(titles[k]) + 1]>>)
             \o FirstOfEach(t, k + 1)

Matches_by_title(t) == FirstOfEach(t, 1)

Matches(t) == FindIter(t, 0)

\* faulty variant: the body starts at m.start(), not m.end()
SectionBody_from_anchor(t, ms, i) ==
    Strip(Slice(t, ms[i].start, IF i + 1 <= Len(ms) THEN ms[i + 1].start ELSE Len(t)))

\* lines 181-183
SectionBody(t, ms, i) ==
    Strip(Slice(t, ms[i].end, IF i + 1 <= Len(ms) THEN ms[i + 1].start ELSE Len(t)))

split_sections_for_pdf(t) ==
    LET ms == Matches(t)
    IN  IF ms = <<>> THEN <<[title |-> ReportTitle, body |-> t]>>
        ELSE [i \in 1..Len(ms) |-> [title |-> ms[i].group1, body |-> SectionBody(t, ms, i)]]

(***************************************************************************)
(* generate_pdf: layout constants (server.py 226-229, 240, 259, 272)       *)
(***************************************************************************)
y_start == 760
line_height == 15
bottom_margin == 70
title_advance == 22
section_gap == 12

(***************************************************************************)
(* Draw operations recorded on a page.  Font and colour selections place   *)
(* no text and are not recorded.                                           *)
(***************************************************************************)
DrawOp(kind, sec, ln, at) == [op |-> kind, sec |-> sec, line |-> ln, y |-> at]

LogoOp == DrawOp("logo", 0, <<>>, 0)
CoverTitleOp == DrawOp("RealtyAI Investment Report", 0, <<>>, 0)
CoverSubtitleOp == DrawOp("AI-powered real estate analysis", 0, <<>>, 0)
FooterOp == DrawOp("footer", 0, <<>>, 35)
TitleOp(sec, at) == DrawOp("title", sec, <<>>, at)
LineOp(sec, ln, at) == DrawOp("line", sec, ln, at)

(***************************************************************************)
(* A body is the sequence of its newline-separated source lines; a source  *)
(* line is given by the number of pieces textwrap.wrap(ln, 90) cuts it     *)
(* into, 0 for an empty or all-blank line.  A wrapped line is <<j, k>>:    *)
(* piece k of source line j, with k = 0 for the "" that stands in for a    *)
(* source line wrap() returns nothing for.                                 *)
(***************************************************************************)
WrapLine(j, n) == IF n = 0 THEN << <<j, 0>> >> ELSE [k \in 1..n |-> <<j, k>>]

Wrapped(body) == Flatten([j \in 1..Len(body) |-> WrapLine(j, body[j])])

\* faulty variant: no room reserved for the title and the gap
needed_body_only(w) == Len(w) * line_height

needed(w) == (Len(w) + 3) * line_height

SectionBreak(yy, w) == yy - needed(w) < bottom_margin

\* faulty variant: the line about to be drawn is not counted
LineBreak_at_margin(yy) == yy < bottom_margin

LineBreak(yy) == yy - line_height < bottom_margin

\* faulty variant: the footer is not drawn
page_footer_missing(p) == p

page_footer(p) == Append(p, FooterOp)

\* new_page(): footer, showPage, cursor back to the top
NewPagePages == Append(pages, page_footer(page))
NewPageBreaks(kind, sec) == Append(breaks, <<kind, sec, page = <<>> >>)

CoverPage(logo) == (IF logo THEN <<LogoOp>> ELSE <<>>) \o <<CoverTitleOp, CoverSubtitleOp>>

(***************************************************************************)
(* generate_pdf, one action per step of the page flow                      *)
(***************************************************************************)
\* lines 207-227: cover page, showPage, cursor to the top of the first content page
DrawCover ==
    /\ pc = "cover"
    /\ \E logo \in BOOLEAN : pages' = Append(pages, page \o CoverPage(logo))
    /\ page' = <<>>
    /\ y' = y_start
    /\ pc' = "section"
    /\ UNCHANGED <<sections, secIdx, wrapped, lineIdx, breaks, saved>>
    /\ UNCHANGED <<sanVars, splitVars>>

\* lines 242-253: next section, wrap its body, section-level reservation
BeginSection ==
    /\ pc = "section"
    /\ secIdx < Len(sections)
    /\ secIdx' = secIdx + 1
    /\ wrapped' = Wrapped(sections[secIdx + 1].body)
    /\ lineIdx' = 0
    /\ IF SectionBreak(y, wrapped')
       THEN /\ pages' = NewPagePages
            /\ page' = <<>>
            /\ y' = y_start
            /\ breaks' = NewPageBreaks("section", secIdx + 1)
       ELSE UNCHANGED <<pages, page, y, breaks>>
    /\ pc' = "title"
    /\ UNCHANGED <<sections, saved>>
    /\ UNCHANGED <<sanVars, splitVars>>

\* lines 255-259
DrawTitle ==
    /\ pc = "title"
    /\ page' = Append(page, TitleOp(secIdx, y))
    /\ y' = y - title_advance
    /\ pc' = "body"
    /\ UNCHANGED <<sections, secIdx, wrapped, lineIdx, pages, breaks, saved>>
    /\ UNCHANGED <<sanVars, splitVars>>

\* faulty variant: the line that triggers the page break is not drawn
DrawLine_break_drops_line ==
    /\ pc = "body"
    /\ lineIdx < Len(wrapped)
    /\ IF LineBreak(y)
       THEN /\ pages' = NewPagePages
            /\ breaks' = NewPageBreaks("line", secIdx)
            /\ page' = <<>>
            /\ y' = y_start
       ELSE /\ page' = Append(page, LineOp(secIdx, wrapped[lineIdx + 1], y))
            /\ y' = y - line_height
            /\ UNCHANGED <<pages, breaks>>
    /\ lineIdx' = lineIdx + 1
    /\ UNCHANGED <<pc, sections, secIdx, wrapped, saved>>
    /\ UNCHANGED <<sanVars, splitVars>>

\* lines 265-270: one iteration of the body loop
DrawLine ==
    /\ pc = "body"
    /\ lineIdx < Len(wrapped)
    /\ LET brk == LineBreak(y)
           y0 == IF brk THEN y_start ELSE y
           p0 == IF brk THEN <<>> ELSE page
       IN  /\ pages' = IF brk THEN NewPagePages ELSE pages
           /\ breaks' = IF brk THEN NewPageBreaks("line", secIdx) ELSE breaks
           /\ page' = Append(p0, LineOp(secIdx, wrapped[lineIdx + 1], y0))
           /\ y' = y0 - line_height
    /\ lineIdx' = lineIdx + 1
    /\ UNCHANGED <<pc, sections, secIdx, wrapped, saved>>
    /\ UNCHANGED <<sanVars, splitVars>>

\* line 272: the body loop is over
EndSection ==
    /\ pc = "body"
    /\ lineIdx = Len(wrapped)
    /\ y' = y - section_gap
    /\ pc' = "section"
    /\ UNCHANGED <<sections, secIdx, wrapped, lineIdx, page, pages, breaks, saved>>
    /\ UNCHANGED <<sanVars, splitVars>>

\* lines 274-276: the section loop is over
LastFooter ==
    /\ pc = "section"
    /\ secIdx = Len(sections)
    /\ pages' = Append(pages, page_footer(page))
    /\ page' = <<>>
    /\ pc' = "save"
    /\ UNCHANGED <<sections, secIdx, wrapped, lineIdx, y, breaks, saved>>
    /\ UNCHANGED <<sanVars, splitVars>>

\* line 278
Save ==
    /\ pc = "save"
    /\ saved' = TRUE
    /\ pc' = "done"
    /\ UNCHANGED <<sections, secIdx, wrapped, lineIdx, y, page, pages, breaks>>
    /\ UNCHANGED <<sanVars, splitVars>>

(***************************************************************************)
(* Section lists handed to the page flow                                   *)
(***************************************************************************)
Bodies == {<<0>>, <<2, 0, 1>>, <<20>>, <<43>>, <<44>>, <<MaxWrap>>}

SectionInputs ==
    {[title |-> "Report", body |-> b] : b \in Bodies}

SectionLists == SeqsUpTo(SectionInputs, MaxSections) \ {<<>>}

SanIdle == /\ raw = <<>> /\ clean1 = <<>> /\ clean2 = <<>>
           /\ base = <<>> /\ inserted = ""
SplitIdle == text = <<>> /\ out = <<>>
PdfIdle == /\ sections = <<>> /\ secIdx = 0 /\ wrapped = <<>> /\ lineIdx = 0
           /\ y = y_start /\ page = <<>> /\ pages = <<>> /\ breaks = <<>>
           /\ saved = FALSE

PdfInit ==
    /\ pc = "cover"
    /\ sections \in SectionLists
    /\ secIdx = 0
    /\ wrapped = <<>>
    /\ lineIdx = 0
    /\ y = y_start
    /\ page = <<>>
    /\ pages = <<>>
    /\ breaks = <<>>
    /\ saved = FALSE

Init == PdfInit /\ SanIdle /\ SplitIdle

Next ==
    \/ DrawCover
    \/ BeginSection
    \/ DrawTitle
    \/ DrawLine
    \/ EndSection
    \/ LastFooter
    \/ Save

Spec == Init /\ [][Next]_vars

(***************************************************************************)
(* sanitize_text applied once and then to its own result                   *)
(***************************************************************************)
SanAlphabet == {"\n", " ", "*", "_", "a", "U+1F600", "U+2600"}

Sanitize ==
    /\ pc = "sanitize"
    /\ clean1' = sanitize_text(raw)
    /\ pc' = "resanitize"
    /\ UNCHANGED <<raw, clean2, base, inserted>>
    /\ UNCHANGED <<splitVars, pdfVars>>

SanitizeAgain ==
    /\ pc = "resanitize"
    /\ clean2' = sanitize_text(clean1)
    /\ pc' = "sanitized"
    /\ UNCHANGED <<raw, clean1, base, inserted>>
    /\ UNCHANGED <<splitVars, pdfVars>>

SanInit ==
    /\ pc = "sanitize"
    /\ raw \in SeqsUpTo(SanAlphabet, MaxLen)
    /\ clean1 = <<>>
    /\ clean2 = <<>>
    /\ base = <<>>
    /\ inserted = ""
    /\ SplitIdle
    /\ PdfIdle

SanNext == Sanitize \/ SanitizeAgain

SpecSan == SanInit /\ [][SanNext]_vars

(***************************************************************************)
(* sanitize_text applied to a string with one emoji inserted               *)
(***************************************************************************)
InsAlphabet == {"1", "$", ".", "*", "#", "a", " ", "U+20AC"}

Emoji == {"U+1F000", "U+1F600", "U+1FAFF", "U+2600", "U+27BF"}

InsertEmoji ==
    /\ pc = "insert"
    /\ \E pos \in 0..Len(base), e \in Emoji :
          /\ inserted' = e
          /\ raw' = InsertAt(base, pos, e)
    /\ pc' = "sanitize"
    /\ UNCHANGED <<base, clean1, clean2>>
    /\ UNCHANGED <<splitVars, pdfVars>>

InsInit ==
    /\ pc = "insert"
    /\ base \in SeqsUpTo(InsAlphabet, MaxBaseLen)
    /\ raw = <<>>
    /\ clean1 = <<>>
    /\ clean2 = <<>>
    /\ inserted = ""
    /\ SplitIdle
    /\ PdfIdle

InsNext == InsertEmoji \/ Sanitize

SpecIns == InsInit /\ [][InsNext]_vars

(***************************************************************************)
(* split_sections_for_pdf applied to texts built from a few pieces         *)
(***************************************************************************)
Pieces ==
    { titles[1] \o <<":">>,     \* "Rental Yield:"
      titles[4] \o <<":">>,     \* "ROI (5-year & 10-year):"
      titles[5],                \* "Cap Rate", an anchor only when ":" follows
      <<":">>, <<" ">>, <<"x">> }

Texts == {Flatten(ps) : ps \in SeqsUpTo(Pieces, MaxPieces)}

Split ==
    /\ pc = "split"
    /\ out' = split_sections_for_pdf(text)
    /\ pc' = "returned"
    /\ UNCHANGED text
    /\ UNCHANGED <<sanVars, pdfVars>>

SplitInit ==
    /\ pc = "split"
    /\ text \in Texts
    /\ out = <<>>
    /\ SanIdle
    /\ PdfIdle

SplitNext == Split

SpecSplit == SplitInit /\ [][SplitNext]_vars

(***************************************************************************)
(* Properties of sanitize_text                                             *)
(***************************************************************************)
MarkdownChars == {"*", "#", "U+0060", "_"}

InEmojiRanges(ch) ==
    \/ 126976 <= ord(ch) /\ ord(ch) <= 129791     \* [U+1F000, U+1FAFF]
    \/ 9728 <= ord(ch) /\ ord(ch) <= 10175        \* [U+2600, U+27BF]

IsBlankLine(l) == \A i \in 1..Len(l) : l[i] \in Whitespace

\* C3: sanitize_text(sanitize_text(s)) = sanitize_text(s).
C3_Idempotent == pc = "sanitized" => clean2 = clean1

C3_Witness ==
    /\ pc = "sanitized"
    /\ clean1 # raw
    /\ clean1 # <<>>
    /\ \E i \in 1..Len(raw) : raw[i] \in MarkdownChars
    /\ \E i \in 1..Len(raw) : InEmojiRanges(raw[i])

\* C4: the result has no markdown character and no code point of the two
\* emoji ranges, no two blank lines in a row, and no blank first or last
\* line; "a\n\n\n\nb" gives "a\n\nb", and the empty input gives "".
C4_SanitizedShape ==
    /\ sanitize_text(<<"a", "\n", "\n", "\n", "\n", "b">>) = <<"a", "\n", "\n", "b">>
    /\ sanitize_text(<<>>) = <<>>
    /\ pc \in {"resanitize", "sanitized"} =>
          LET ls == SplitLines(clean1)
          IN  /\ \A i \in 1..Len(clean1) : clean1[i] \notin MarkdownChars
              /\ \A i \in 1..Len(clean1) : ~InEmojiRanges(clean1[i])
              /\ \A i \in 1..(Len(ls) - 1) : ~(IsBlankLine(ls[i]) /\ IsBlankLine(ls[i + 1]))
              /\ clean1 # <<>> => ~IsBlankLine(ls[1]) /\ ~IsBlankLine(ls[Len(ls)])
              /\ raw = <<>> => clean1 = <<>>

C4_Witness ==
    /\ pc = "resanitize"
    /\ \E i \in 1..(Len(raw) - 2) : raw[i] = "\n" /\ raw[i + 1] = "\n" /\ raw[i + 2] = "\n"
    /\ \E i \in 1..(Len(clean1) - 1) : clean1[i] = "\n" /\ clean1[i + 1] = "\n"

IsAsciiDigit(ch) == 48 <= ord(ch) /\ ord(ch) <= 57

IsAsciiPunct(ch) ==
    \/ 33 <= ord(ch) /\ ord(ch) <= 47
    \/ 58 <= ord(ch) /\ ord(ch) <= 64
    \/ 91 <= ord(ch) /\ ord(ch) <= 96
    \/ 123 <= ord(ch) /\ ord(ch) <= 126

IsCurrency(ch) == ch \in {"$", "U+20AC"}

IsDigitCurrencyPunct(ch) == IsAsciiDigit(ch) \/ IsCurrency(ch) \/ IsAsciiPunct(ch)

IsKeptDigitCurrencyPunct(ch) == IsDigitCurrencyPunct(ch) /\ ch \notin MarkdownChars

\* C6 as stated: the inserted emoji is absent from the result, and every
\* ASCII digit, currency symbol and punctuation character of s is in the
\* result, unchanged and in order.
C6_AllPunctuationKept ==
    pc = "resanitize" /\ inserted # "" =>
        /\ \A i \in 1..Len(clean1) : clean1[i] # inserted
        /\ SelectSeq(clean1, IsDigitCurrencyPunct) = SelectSeq(base, IsDigitCurrencyPunct)

\* C6 amended: the inserted emoji is absent from the result, and every ASCII
\* digit, currency symbol and punctuation character of s other than the
\* markdown characters * # ` _ is in the result, unchanged and in order; the
\* markdown characters are absent from it.
C6_EmojiGoneRestKept ==
    pc = "resanitize" /\ inserted # "" =>
        /\ \A i \in 1..Len(clean1) : clean1[i] # inserted
        /\ SelectSeq(clean1, IsDigitCurrencyPunct)
              = SelectSeq(base, IsKeptDigitCurrencyPunct)

C6_Witness ==
    /\ pc = "resanitize"
    /\ inserted \in Emoji
    /\ Len(base) = MaxBaseLen
    /\ raw[2] = inserted
    /\ \E i \in 1..Len(base) : IsAsciiDigit(base[i])
    /\ \E i \in 1..Len(base) : IsCurrency(base[i])
    /\ \E i \in 1..Len(base) : base[i] = "."
    /\ Len(clean1) = Len(base)

(***************************************************************************)
(* Properties of split_sections_for_pdf                                    *)
(***************************************************************************)
\* title k followed by a colon stands at 1-based position i of t
AnchorAt(t, i, k) ==
    /\ i + Len(titles[k]) <= Len(t)
    /\ \A j \in 1..Len(titles[k]) : t[i + j - 1] = titles[k][j]
    /\ t[i + Len(titles[k])] = ":"

AnchorStarts(t) == {i \in 1..Len(t) : \E k \in 1..Len(titles) : AnchorAt(t, i, k)}

AnchorTitle(t, i) == CHOOSE k \in 1..Len(titles) : AnchorAt(t, i, k)

\* the positions of t covered by an anchor
AnchorCover(t) ==
    UNION {i..(i + Len(titles[AnchorTitle(t, i)])) : i \in AnchorStarts(t)}

RECURSIVE Ascending(_)
Ascending(S) ==
    IF S = {} THEN <<>>
    ELSE LET m == CHOOSE m \in S : \A x \in S : m <= x
         IN  <<m>> \o Ascending(S \ {m})

NotSpace(ch) == ch \notin Whitespace

\* C5: one pair per anchor occurrence, in order of position; the title is the
\* anchor's title and the body the trimmed text between the anchor's colon
\* and the next anchor (or the end); without an anchor the result is
\* [("Report", text)].
C5_OnePairPerAnchor ==
    pc = "returned" =>
        LET at == Ascending(AnchorStarts(text))
        IN  /\ out # <<>>
            /\ at = <<>> => out = <<[title |-> ReportTitle, body |-> text]>>
            /\ at # <<>> =>
                  /\ Len(out) = Len(at)
                  /\ \A n \in 1..Len(at) :
                        LET k == AnchorTitle(text, at[n])
                            from == at[n] + Len(titles[k]) + 1
                            to == IF n < Len(at) THEN at[n + 1] - 1 ELSE Len(text)
                        IN  /\ out[n].title = titles[k]
                            /\ out[n].body = Strip(SubSeq(text, from, to))

C5_Witness ==
    /\ pc = "returned"
    /\ Len(out) = 3
    /\ out[1].title = titles[4]
    /\ out[2].title = titles[1]
    /\ out[3].title = titles[4]
    /\ out[1].body = <<"x">>

\* the characters of t that are not whitespace and in no anchor, from
\* 1-based position lo on
FreeText(t, lo) ==
    LET cover == AnchorCover(t)
        Free(p) == p >= lo /\ NotSpace(t[p]) /\ p \notin cover
        at == SelectSeq([p \in 1..Len(t) |-> p], Free)
    IN  [n \in 1..Len(at) |-> t[at[n]]]

BodyText(o) == SelectSeq(Flatten([n \in 1..Len(o) |-> o[n].body]), NotSpace)

\* C7 as stated: with an anchor in the text, every non-whitespace character
\* outside the anchors, the text in front of the first anchor included, is in
\* exactly one body.
C7_WholeTextInBodies ==
    pc = "returned" /\ AnchorStarts(text) # {} => BodyText(out) = FreeText(text, 1)

\* C7 amended: with an anchor in the text, every non-whitespace character
\* outside the anchors that stands after the first anchor is in exactly one
\* body, in text order; the text in front of the first anchor is in no body.
C7_TextAfterFirstAnchorInBodies ==
    pc = "returned" /\ AnchorStarts(text) # {} =>
        LET first == CHOOSE i \in AnchorStarts(text) : \A j \in AnchorStarts(text) : i <= j
        IN  BodyText(out) = FreeText(text, first)

C7_Witness ==
    /\ pc = "returned"
    /\ Len(out) = 2
    /\ text[1] = "x"
    /\ out[1].body = <<"x">>
    /\ out[1].title # out[2].title
    /\ BodyText(out) # FreeText(text, 1)

(***************************************************************************)
(* Properties of the page flow                                             *)
(***************************************************************************)
\* every draw operation so far, in emitted order
Emitted == Flatten(pages) \o page

IsLine(o) == o.op = "line"
IsText(o) == o.op \in {"title", "line"}

\* body lines drawn so far, in emitted order, as <<section, wrapped line>>
DrawnLines ==
    LET ls == SelectSeq(Emitted, IsLine)
    IN  [k \in 1..Len(ls) |-> <<ls[k].sec, ls[k].line>>]

SectionLines(i) ==
    LET w == Wrapped(sections[i].body)
    IN  [k \in 1..Len(w) |-> <<i, w[k]>>]

ExpectedLines == Flatten([i \in 1..Len(sections) |-> SectionLines(i)])

BreakKinds == {breaks[k][1] : k \in 1..Len(breaks)}

ThankYouOp == DrawOp("thank-you", 0, <<>>, 0)
UrlOp == DrawOp("url", 0, <<>>, 0)

IsCover(p) == p \in {CoverPage(TRUE), CoverPage(FALSE)}

\* a page after the cover: section text only, closed by exactly one footer
IsFooted(p) ==
    /\ p # <<>>
    /\ p[Len(p)] = FooterOp
    /\ \A k \in 1..(Len(p) - 1) : IsText(p[k])

C2_NoLineLost ==
    LET d == DrawnLines
        e == ExpectedLines
    IN  /\ Len(d) <= Len(e)
        /\ d = SubSeq(e, 1, Len(d))
        /\ pc \in {"save", "done"} => d = e
        /\ pc = "body" => Len(d) >= lineIdx
        /\ pc = "body" /\ lineIdx > 0 => d[Len(d)] = <<secIdx, wrapped[lineIdx]>>

C2_Witness ==
    /\ pc = "done"
    /\ BreakKinds = {"section", "line"}
    /\ Len(sections) >= 2
    /\ Len(DrawnLines) > MaxWrap

\* C8: on every page a section title is directly followed by the first
\* wrapped line of that section; the one exception is the open page while the
\* title is the last thing drawn and the body loop has not started.
TitleKeepsFirstLine(p, open) ==
    \A k \in 1..Len(p) :
        p[k].op = "title" =>
            IF k < Len(p)
            THEN /\ p[k + 1].op = "line"
                 /\ p[k + 1].sec = p[k].sec
                 /\ p[k + 1].line = Head(Wrapped(sections[p[k].sec].body))
            ELSE open /\ pc = "body" /\ lineIdx = 0 /\ p[k].sec = secIdx

C8_TitleWithFirstLine ==
    /\ \A i \in 1..Len(pages) : TitleKeepsFirstLine(pages[i], FALSE)
    /\ TitleKeepsFirstLine(page, TRUE)
    /\ pc = "body" /\ lineIdx = 0 => ~LineBreak(y)

C8_Witness ==
    /\ pc = "body"
    /\ lineIdx = 1
    /\ secIdx >= 2
    /\ Len(breaks) > 0
    /\ breaks[Len(breaks)] = <<"section", secIdx, FALSE>>
    /\ Len(page) = 2

\* C9: every title and body line is drawn at bottom_margin <= y <= 760, and
\* every body line at a y with y - line_height >= bottom_margin.
TextAboveMargin(p) ==
    \A k \in 1..Len(p) :
        IsText(p[k]) =>
            /\ bottom_margin <= p[k].y
            /\ p[k].y <= y_start
            /\ IsLine(p[k]) => p[k].y - line_height >= bottom_margin

C9_AboveBottomMargin ==
    /\ \A i \in 1..Len(pages) : TextAboveMargin(pages[i])
    /\ TextAboveMargin(page)

C9_Witness ==
    /\ "line" \in BreakKinds
    /\ \E k \in 1..Len(page) :
          IsLine(page[k]) /\ page[k].y - line_height < bottom_margin + line_height

\* C10: every page closed after the cover page has a title or a body line on
\* it, and new_page never runs on an empty page.
C10_NoEmptyContentPage ==
    /\ \A i \in 2..Len(pages) : \E k \in 1..Len(pages[i]) : IsText(pages[i][k])
    /\ \A k \in 1..Len(breaks) : ~breaks[k][3]

====
